---------------------------- MODULE Spec2Model ----------------------------
(***************************************************************************)
(* A model of the real-time audio transcription extension.                 *)
(*                                                                         *)
(*   SpecCapture  the capture context (offscreen.js): the silence          *)
(*                detection loop, the hangover timer, the encoder and the  *)
(*                chunk conversion.                                        *)
(*   Spec         the coordination context (background.js): chunk          *)
(*                routing, the provider chain with retry and backoff, the  *)
(*                offline queue and its drain.                             *)
(*   SpecSession  the session commands: the side panel (sidepanel.js) and  *)
(*                the start, stop, pause and error handlers of             *)
(*                background.js, with the loss of the capture source.      *)
(*   SpecTimer    the elapsed-time display of the side panel: its timer,   *)
(*                pause and resume, and its reload from storage.           *)
(*                                                                         *)
(* Each context is a single-threaded event loop: an action is one task of  *)
(* that loop, from the point where a handler (re)starts to its next await. *)
(* Time is counted in milliseconds.                                        *)
(***************************************************************************)
EXTENDS Integers, Sequences, FiniteSets, TLC

(***************************************************************************)
(* Program constants.                                                      *)
(***************************************************************************)
SILENCE_THRESHOLD == -50

SPEECH_TIMEOUT == 1500

SAMPLE_INTERVAL == 200

\* setInterval(..., 1000) of the side panel's timer
TIMER_PERIOD == 1000

\* callGeminiApi(audioBase64, key, retries = 3, delay = 1000)
Retries == 3

BaseDelay == 1000

(***************************************************************************)
(* Bounds of the model.                                                    *)
(***************************************************************************)
MaxSegments == 2

MaxStarts == 2

MaxChunks == 2

MaxDrains == 2

MaxDispatches == 2

MaxSessions == 1

MaxStartRequests == 2

MaxStops == 2

MaxSessionChunks == 1

MaxNow == 4000

(***************************************************************************)
(* Inputs.                                                                 *)
(***************************************************************************)
Loudness == {-60, -50, -30}

RECURSIVE GCD(_, _)
GCD(a, b) == IF b = 0 THEN a ELSE GCD(b, a % b)

\* The instants at which a timer of the capture context can be due.
TimeStep == GCD(SAMPLE_INTERVAL, SPEECH_TIMEOUT)

\* The loudness sequence of the specification's scenario.
Scenario == <<-60, -60, -30, -30, -30, -60, -60, -60, -60, -60, -60, -60, -60>>

RemoveAt(s, i) == SubSeq(s, 1, i - 1) \o SubSeq(s, i + 1, Len(s))

VARIABLES
    \* ---- capture context (offscreen.js) ----
    mediaRecorder,        \* "undefined" or the state of the current MediaRecorder
    recorded,             \* the current recorder has gathered data since start()
    segment,              \* number of the speech segment being (or last) recorded
    audioChunks,          \* the blobs pushed by ondataavailable: segment numbers
    speechTimeout,        \* the variable speechTimeout is non-null
    timerLeft,            \* ms until the hangover timer fires, -1 when none is pending
    silenceCheckInterval, \* the variable silenceCheckInterval is set
    intervals,            \* one countdown (ms) per running setInterval loop
    gumPending,           \* startRecording calls awaiting getUserMedia
    tracksLive,           \* capture streams whose tracks have not been stopped
    contextsOpen,         \* AudioContexts of setupAudioAnalysis not yet closed
    orphanRecorders,      \* recorders replaced while still recording or paused
    stopEvents,           \* queued dataavailable+stop events of the encoder
    converting,           \* onstop handlers awaiting convertBlobToBase64Wav
    emitted,              \* processAudioChunk messages sent, oldest first
    captureErrors,        \* recordingError messages sent
    closed,               \* window.close() has been called
    \* ---- observers of the capture context ----
    starts,               \* startOffscreenRecording commands handled
    clean,                \* no pause or stop command so far, one sampling loop
    inSpeech,             \* a loud sample was read since the last chunk boundary
    silentFor,            \* ms since the silence run began, -1 outside one
    expected,             \* loud runs followed by a silence of >= the hangover
    scenPos,              \* samples of Scenario read so far, -1 once off it
    emptyStops,           \* stop events handled with nothing buffered
    convFailed,           \* conversions that rejected
    pauseActive,          \* the engine handled a pause command, no resume or stop since
    stopFinalized,        \* the segment a stop command found being recorded, or 0
    \* ---- coordination context (background.js) ----
    online,               \* navigator.onLine
    audioSource,          \* the variable audioSource
    capturedTabId,        \* the variable capturedTabId: "null" or "tab"
    recordingState,       \* chrome.storage.local: recordingState ("unset" at install)
    offlineQueue,         \* chrome.storage.local: offlineAudioQueue, chunk numbers
    startTasks,           \* startRecording calls: "setup", "persist", "done", "failed"
    enqueues,             \* addToOfflineQueue calls, one per chunk routed to the queue
    dispatches,           \* transcribeAudio calls, in the order they were started
    drains,               \* processOfflineQueue calls, in the order they were started
    \* ---- observers of the coordination context ----
    arrivals,             \* navigator.onLine at each chunk's arrival, in arrival order
    everQueued,           \* chunks that have been in the stored queue
    \* ---- side panel (sidepanel.js) and its messages ----
    popupState,           \* the variable recordingState of sidepanel.js
    responded,            \* startRecording calls whose response the panel handled
    errorVisible,         \* the error element of the panel is shown
    statusText,           \* the text of the panel's status label
    fullTranscript,       \* the variable fullTranscript: the session of each entry
    toPopup,              \* messages sent to the panel and not yet handled by it
    transcript,           \* chrome.storage.local: transcript
    captureSettled,       \* the capture starts that have settled: stream opened or not
    inFlight,             \* transcribeAudio calls of the session model
    \* ---- observers of the session ----
    sourceGone,           \* the capture source in use has disappeared
    stopCalls,            \* calls of stopRecording in background.js
    requestedIn,          \* the persisted state at each startRecording request
    writers,              \* the contexts that have written the session record
    sinceError,           \* handleError has run and the user has not clicked since
    \* ---- the elapsed time of the side panel ----
    now,                  \* Date.now()
    secondsElapsed,       \* the variable secondsElapsed of sidepanel.js
    timerInterval,        \* ms until the timer fires next, -1 when there is no timer
    storedSeconds,        \* chrome.storage.local: secondsElapsed, -1 when not set
    storedStart,          \* chrome.storage.local: startTime, 0 when not set
    \* ---- observers of the elapsed time ----
    pausedAt,             \* the time of the last pause of the session, 0 when none
    pausedSeconds,        \* secondsElapsed at that pause
    resumedAt             \* the time of the resume after that pause, 0 when none

captureVars == <<mediaRecorder, recorded, segment, audioChunks, speechTimeout,
                 timerLeft, silenceCheckInterval, intervals, gumPending,
                 tracksLive, contextsOpen, orphanRecorders, stopEvents,
                 converting, emitted, captureErrors, closed>>

observerVars == <<starts, clean, inSpeech, silentFor, expected, scenPos,
                  emptyStops, convFailed>>

coordVars == <<online, audioSource, capturedTabId, recordingState,
               offlineQueue, startTasks, enqueues, dispatches, drains>>

coordObserverVars == <<arrivals, everQueued>>

pauseVars == <<pauseActive, stopFinalized>>

captureAll == <<captureVars, observerVars, pauseVars>>

popupVars == <<popupState, responded, errorVisible, statusText, fullTranscript>>

sessionObserverVars == <<sourceGone, stopCalls, requestedIn, writers, sinceError>>

timerVars == <<now, secondsElapsed, timerInterval, storedSeconds, storedStart>>

timerObserverVars == <<pausedAt, pausedSeconds, resumedAt>>

sessionVars == <<popupVars, toPopup, transcript, captureSettled, inFlight,
                 sessionObserverVars, timerVars, timerObserverVars>>

coordAll == <<coordVars, coordObserverVars, sessionVars>>

vars == <<captureAll, coordAll>>

(***************************************************************************)
(* Capture context: offscreen.js                                           *)
(***************************************************************************)
InitCapture ==
    /\ mediaRecorder = "undefined"
    /\ recorded = FALSE
    /\ segment = 0
    /\ audioChunks = <<>>
    /\ speechTimeout = FALSE
    /\ timerLeft = -1
    /\ silenceCheckInterval = FALSE
    /\ intervals = <<>>
    /\ gumPending = 0
    /\ tracksLive = 0
    /\ contextsOpen = 0
    /\ orphanRecorders = 0
    /\ stopEvents = <<>>
    /\ converting = <<>>
    /\ emitted = <<>>
    /\ captureErrors = 0
    /\ closed = FALSE
    /\ starts = 0
    /\ clean = TRUE
    /\ inSpeech = FALSE
    /\ silentFor = -1
    /\ expected = 0
    /\ scenPos = 0
    /\ emptyStops = 0
    /\ convFailed = 0
    /\ pauseActive = FALSE
    /\ stopFinalized = 0

\* The observers stop at the first pause or stop command or second sampling loop.
ObserverOff ==
    /\ clean' = FALSE
    /\ inSpeech' = FALSE
    /\ silentFor' = -1
    /\ expected' = 0
    /\ scenPos' = -1

IsLoud_Inclusive(db) == db >= SILENCE_THRESHOLD

\* loud = db > SILENCE_THRESHOLD
IsLoud(db) == db > SILENCE_THRESHOLD

\* The guard of startRecording: a recorder exists and is not inactive.
RecorderActive == mediaRecorder \in {"recording", "paused"}

\* mediaRecorder.stop(): the state becomes inactive and the dataavailable and
\* stop events are queued, carrying what the encoder gathered since start().
EncoderStop == Append(stopEvents, IF recorded THEN segment ELSE 0)

\* handleMessages 'startOffscreenRecording' up to the await of getUserMedia.
StartCaptureBegin ==
    /\ ~closed
    /\ starts < MaxStarts
    /\ starts' = starts + 1
    /\ gumPending' = IF RecorderActive THEN gumPending ELSE gumPending + 1
    /\ UNCHANGED <<mediaRecorder, recorded, segment, audioChunks, speechTimeout,
                   timerLeft, silenceCheckInterval, intervals, tracksLive,
                   contextsOpen, orphanRecorders, stopEvents, converting,
                   emitted, captureErrors, closed>>
    /\ UNCHANGED <<clean, inSpeech, silentFor, expected, scenPos, emptyStops,
                   convFailed>>
    /\ UNCHANGED pauseVars
    /\ UNCHANGED coordAll

\* startRecording after getUserMedia settled: the recorder, the analysis graph
\* and the sampling loop are created, or recordingError is sent.
GetUserMediaSettles(ok) ==
    /\ ~closed
    /\ gumPending > 0
    /\ gumPending' = gumPending - 1
    /\ IF ok
       THEN /\ tracksLive' = tracksLive + 1
            /\ orphanRecorders' = orphanRecorders + (IF RecorderActive THEN 1 ELSE 0)
            /\ mediaRecorder' = "inactive"
            /\ recorded' = FALSE
            /\ contextsOpen' = contextsOpen + 1
            /\ intervals' = Append(intervals, SAMPLE_INTERVAL)
            /\ silenceCheckInterval' = TRUE
            /\ IF clean /\ intervals = <<>>
               THEN UNCHANGED <<clean, inSpeech, silentFor, expected, scenPos>>
               ELSE ObserverOff
            /\ UNCHANGED captureErrors
       ELSE /\ captureErrors' = captureErrors + 1
            /\ UNCHANGED <<tracksLive, orphanRecorders, mediaRecorder, recorded,
                           contextsOpen, intervals, silenceCheckInterval, clean,
                           inSpeech, silentFor, expected, scenPos>>
    /\ UNCHANGED <<segment, audioChunks, speechTimeout, timerLeft, stopEvents,
                   converting, emitted, closed>>
    /\ UNCHANGED <<starts, emptyStops, convFailed>>
    /\ UNCHANGED pauseVars
    /\ UNCHANGED coordAll

\* What the observers record for a sample that was read.
ObserveSample(db) ==
    IF ~clean THEN UNCHANGED <<inSpeech, silentFor, scenPos>> ELSE
    /\ inSpeech' = (inSpeech \/ db > -50)
    /\ silentFor' = IF db > -50 THEN -1
                    ELSE IF inSpeech /\ silentFor = -1 THEN 0 ELSE silentFor
    /\ scenPos' = IF scenPos >= 0 /\ scenPos < Len(Scenario)
                     /\ db = Scenario[scenPos + 1]
                  THEN scenPos + 1 ELSE -1

\* One callback of the setInterval loop k of startSilenceDetection.
SampleTick(k, db) ==
    /\ ~closed
    /\ k \in 1..Len(intervals)
    /\ intervals[k] = 0
    /\ IsLoud(db) /\ mediaRecorder = "inactive" => segment < MaxSegments
    /\ intervals' = [intervals EXCEPT ![k] = SAMPLE_INTERVAL]
    /\ IF mediaRecorder = "paused"
       THEN UNCHANGED <<mediaRecorder, recorded, segment, speechTimeout,
                        timerLeft, inSpeech, silentFor, scenPos>>
       ELSE /\ ObserveSample(db)
            /\ IF IsLoud(db)
               THEN /\ IF mediaRecorder = "inactive"
                       THEN /\ mediaRecorder' = "recording"
                            /\ recorded' = FALSE
                            /\ segment' = segment + 1
                       ELSE UNCHANGED <<mediaRecorder, recorded, segment>>
                    /\ IF speechTimeout
                       THEN speechTimeout' = FALSE /\ timerLeft' = -1
                       ELSE UNCHANGED <<speechTimeout, timerLeft>>
               ELSE /\ IF mediaRecorder = "recording" /\ ~speechTimeout
                       THEN speechTimeout' = TRUE /\ timerLeft' = SPEECH_TIMEOUT
                       ELSE UNCHANGED <<speechTimeout, timerLeft>>
                    /\ UNCHANGED <<mediaRecorder, recorded, segment>>
    /\ UNCHANGED <<audioChunks, silenceCheckInterval, gumPending, tracksLive,
                   contextsOpen, orphanRecorders, stopEvents, converting,
                   emitted, captureErrors, closed>>
    /\ UNCHANGED <<starts, clean, expected, emptyStops, convFailed>>
    /\ UNCHANGED pauseVars
    /\ UNCHANGED coordAll

\* The callback of the hangover timer.  stop() on an inactive recorder throws
\* InvalidStateError, which leaves speechTimeout set.
TimeoutFire ==
    /\ ~closed
    /\ timerLeft = 0
    /\ timerLeft' = -1
    /\ IF mediaRecorder = "inactive"
       THEN UNCHANGED <<mediaRecorder, stopEvents, speechTimeout>>
       ELSE /\ mediaRecorder' = "inactive"
            /\ stopEvents' = EncoderStop
            /\ speechTimeout' = FALSE
    /\ UNCHANGED <<recorded, segment, audioChunks, silenceCheckInterval,
                   intervals, gumPending, tracksLive, contextsOpen,
                   orphanRecorders, converting, emitted, captureErrors, closed>>
    /\ UNCHANGED observerVars
    /\ UNCHANGED pauseVars
    /\ UNCHANGED coordAll

\* ondataavailable: a blob of size 0 is not buffered.
OnDataAvailable(chunks, data) == IF data > 0 THEN Append(chunks, data) ELSE chunks

OnStopConverts_NoGuard(chunks) == TRUE

\* onstop, up to its await: nothing is converted when nothing is buffered.
OnStopConverts(chunks) == Len(chunks) # 0

\* The dataavailable and stop events of one stop() call, fired in one task.
RecorderStopEvents ==
    /\ stopEvents # <<>>
    /\ LET chunks == OnDataAvailable(audioChunks, Head(stopEvents)) IN
        /\ stopEvents' = Tail(stopEvents)
        /\ audioChunks' = chunks
        /\ IF OnStopConverts(chunks)
           THEN converting' = Append(converting, chunks)
           ELSE UNCHANGED converting
        /\ emptyStops' = emptyStops + (IF Len(chunks) = 0 THEN 1 ELSE 0)
    /\ UNCHANGED <<mediaRecorder, recorded, segment, speechTimeout, timerLeft,
                   silenceCheckInterval, intervals, gumPending, tracksLive,
                   contextsOpen, orphanRecorders, emitted, captureErrors, closed>>
    /\ UNCHANGED <<starts, clean, inSpeech, silentFor, expected, scenPos,
                   convFailed>>
    /\ UNCHANGED pauseVars
    /\ UNCHANGED coordAll

\* onstop after convertBlobToBase64Wav settled: the chunk is sent and the
\* buffer cleared, or the rejection ends the handler.
ConvertSettles(i, ok) ==
    /\ i \in 1..Len(converting)
    /\ converting' = RemoveAt(converting, i)
    /\ IF ok
       THEN /\ emitted' = Append(emitted, converting[i])
            /\ audioChunks' = <<>>
            /\ UNCHANGED convFailed
       ELSE /\ convFailed' = convFailed + 1
            /\ UNCHANGED <<emitted, audioChunks>>
    /\ UNCHANGED <<mediaRecorder, recorded, segment, speechTimeout, timerLeft,
                   silenceCheckInterval, intervals, gumPending, tracksLive,
                   contextsOpen, orphanRecorders, stopEvents, captureErrors,
                   closed>>
    /\ UNCHANGED <<starts, clean, inSpeech, silentFor, expected, scenPos,
                   emptyStops>>
    /\ UNCHANGED pauseVars
    /\ UNCHANGED coordAll

\* handleMessages 'pauseOffscreenRecording'.
PauseCommand ==
    /\ ~closed
    /\ mediaRecorder' = IF mediaRecorder = "recording" THEN "paused" ELSE mediaRecorder
    /\ ObserverOff
    /\ UNCHANGED <<recorded, segment, audioChunks, speechTimeout, timerLeft,
                   silenceCheckInterval, intervals, gumPending, tracksLive,
                   contextsOpen, orphanRecorders, stopEvents, converting,
                   emitted, captureErrors, closed>>
    /\ UNCHANGED <<starts, emptyStops, convFailed>>
    /\ pauseActive' = (mediaRecorder # "undefined")
    /\ UNCHANGED stopFinalized
    /\ UNCHANGED coordAll

\* handleMessages 'resumeOffscreenRecording'.
ResumeCommand ==
    /\ ~closed
    /\ mediaRecorder' = IF mediaRecorder = "paused" THEN "recording" ELSE mediaRecorder
    /\ UNCHANGED <<recorded, segment, audioChunks, speechTimeout, timerLeft,
                   silenceCheckInterval, intervals, gumPending, tracksLive,
                   contextsOpen, orphanRecorders, stopEvents, converting,
                   emitted, captureErrors, closed>>
    /\ UNCHANGED observerVars
    /\ pauseActive' = FALSE
    /\ UNCHANGED stopFinalized
    /\ UNCHANGED coordAll

\* stopRecording of offscreen.js.  clearInterval stops the loop whose id the
\* variable holds, the one created last.
StopCommand ==
    /\ ~closed
    /\ intervals' = IF silenceCheckInterval
                    THEN SubSeq(intervals, 1, Len(intervals) - 1) ELSE intervals
    /\ timerLeft' = IF speechTimeout THEN -1 ELSE timerLeft
    /\ IF RecorderActive
       THEN /\ tracksLive' = tracksLive - 1
            /\ mediaRecorder' = "inactive"
            /\ stopEvents' = EncoderStop
       ELSE UNCHANGED <<tracksLive, mediaRecorder, stopEvents>>
    /\ contextsOpen' = IF contextsOpen > 0 THEN contextsOpen - 1 ELSE 0
    /\ closed' = TRUE
    /\ ObserverOff
    /\ UNCHANGED <<recorded, segment, audioChunks, speechTimeout,
                   silenceCheckInterval, gumPending, orphanRecorders,
                   converting, emitted, captureErrors>>
    /\ UNCHANGED <<starts, emptyStops, convFailed>>
    /\ pauseActive' = FALSE
    /\ stopFinalized' = IF mediaRecorder = "recording" /\ recorded
                        THEN segment ELSE stopFinalized
    /\ UNCHANGED coordAll

\* The closed document goes away: queued events and awaiting handlers are lost.
DocumentGone ==
    /\ closed
    /\ stopEvents # <<>> \/ converting # <<>>
    /\ stopEvents' = <<>>
    /\ converting' = <<>>
    /\ UNCHANGED <<mediaRecorder, recorded, segment, audioChunks, speechTimeout,
                   timerLeft, silenceCheckInterval, intervals, gumPending,
                   tracksLive, contextsOpen, orphanRecorders, emitted,
                   captureErrors, closed>>
    /\ UNCHANGED observerVars
    /\ UNCHANGED pauseVars
    /\ UNCHANGED coordAll

\* TimeStep ms pass with no task of the capture context due.
Advance ==
    /\ ~closed
    /\ intervals # <<>>
    /\ timerLeft # 0
    /\ stopEvents = <<>>
    /\ \A k \in 1..Len(intervals) : intervals[k] # 0
    /\ intervals' = [k \in 1..Len(intervals) |-> intervals[k] - TimeStep]
    /\ timerLeft' = IF timerLeft > 0 THEN timerLeft - TimeStep ELSE timerLeft
    /\ recorded' = (recorded \/ mediaRecorder = "recording")
    /\ IF clean /\ silentFor >= 0 /\ silentFor + TimeStep >= 1500
       THEN expected' = expected + 1 /\ inSpeech' = FALSE /\ silentFor' = -1
       ELSE /\ silentFor' = IF silentFor >= 0 THEN silentFor + TimeStep ELSE silentFor
            /\ UNCHANGED <<expected, inSpeech>>
    /\ UNCHANGED <<mediaRecorder, segment, audioChunks, speechTimeout,
                   silenceCheckInterval, gumPending, tracksLive, contextsOpen,
                   orphanRecorders, stopEvents, converting, emitted,
                   captureErrors, closed>>
    /\ UNCHANGED <<starts, clean, scenPos, emptyStops, convFailed>>
    /\ UNCHANGED pauseVars
    /\ UNCHANGED coordAll

(***************************************************************************)
(* Coordination context: background.js                                     *)
(*                                                                         *)
(* chrome.storage.local serves the calls of one context in the order they  *)
(* were made: a get reads, and a set or remove writes, when it is called;   *)
(* the caller resumes in a later task.                                     *)
(***************************************************************************)
InitCoord ==
    /\ online = TRUE
    /\ audioSource = "tab"
    /\ capturedTabId = "null"
    /\ recordingState = "unset"
    /\ offlineQueue = <<>>
    /\ startTasks = <<>>
    /\ enqueues = [c \in {} |-> 0]
    /\ dispatches = <<>>
    /\ drains = <<>>
    /\ arrivals = <<>>
    /\ everQueued = {}

\* The session state a reader of the persisted record sees.
SessionState == IF recordingState = "unset" THEN "idle" ELSE recordingState

\* const services = [callGeminiApi, callWhisperApi, callDeepgramApi]
Services == <<"callGeminiApi", "callWhisperApi", "callDeepgramApi">>

\* What a fetch of callGeminiApi can end with: a 2xx body with the text, a 2xx
\* body without it, a rejected fetch, a non-2xx status.
GeminiResponses == {"text", "empty", "network", "http"}

GeminiError(resp) ==
    IF resp = "network" THEN "Failed to fetch" ELSE "HTTP Error"

PlaceholderError(svc) ==
    IF Services[svc] = "callWhisperApi" THEN "Whisper API not implemented."
    ELSE "Deepgram API not implemented."

EmptyMessage == "Received an empty or invalid response."

\* One iteration of callGeminiApi's loop body, for chunk c: the value returned
\* or the error thrown into the catch clause.
AttemptOutcome(resp, c) ==
    CASE resp = "text" -> [kind |-> "return", text |-> <<"transcript", c>>]
      [] resp = "empty" -> [kind |-> "return", text |-> <<>>]
      [] OTHER -> [kind |-> "throw", msg |-> GeminiError(resp)]

\* result?.candidates?.[0]?.content?.parts?.[0]?.text
HasTranscript(out) == out.kind = "return" /\ out.text # <<>>

IsLastAttempt_NoRetry(i) == TRUE

\* if (i === retries - 1) throw error
IsLastAttempt(i) == i = Retries - 1

RECURSIVE Pow2(_)
Pow2(n) == IF n = 0 THEN 1 ELSE 2 * Pow2(n - 1)

Backoff_Constant(i) == BaseDelay

\* delay * Math.pow(2, i)
Backoff(i) == BaseDelay * Pow2(i)

ErrorNotice_None(errorMessages) == <<>>

ErrorNotice_PerService(errorMessages) ==
    [s \in 1..Len(errorMessages) |-> <<errorMessages[s]>>]

\* handleError, called by transcribeAudio: the one error message it sends.
ErrorNotice(errorMessages) == <<errorMessages>>

NextService_Skip(svc) == svc + 2

\* The loop of transcribeAudio moves on from a service that gave no transcript.
NextService(svc) == svc + 1

NewDispatch(c, owner) ==
    [chunk |-> c, owner |-> owner, svc |-> 0, i |-> 0, pc |-> "new",
     lastResp |-> "none", calls |-> <<>>, delays |-> <<>>,
     errorMessages |-> <<>>, updates |-> <<>>, notices |-> <<>>]

RECURSIVE ServiceSettled(_, _)

\* transcribeAudio calls service svc.  callGeminiApi awaits its fetch; the two
\* placeholders reject at once, and the loop goes on in the same task.
CallService(d, svc) ==
    LET d1 == [d EXCEPT !.svc = svc, !.calls = Append(@, svc)] IN
    IF Services[svc] = "callGeminiApi"
    THEN [d1 EXCEPT !.pc = "fetch", !.i = 0]
    ELSE ServiceSettled(d1, [kind |-> "throw", msg |-> PlaceholderError(svc)])

\* The body of transcribeAudio's loop after `await service(...)` settled with
\* out, down to the function's end or to the next await.
ServiceSettled(d, out) ==
    IF HasTranscript(out)
    THEN [d EXCEPT !.pc = "ok",
                   !.updates = Append(@, [transcript |-> out.text])]
    ELSE LET msg == IF out.kind = "return" THEN EmptyMessage ELSE out.msg
             d1 == [d EXCEPT !.errorMessages = Append(@, <<Services[d.svc], msg>>)]
         IN  IF d.svc = Len(Services)
             THEN [d1 EXCEPT !.pc = "failed",
                             !.notices = @ \o ErrorNotice(d1.errorMessages)]
             ELSE CallService(d1, NextService(d.svc))

\* transcribeAudio(chunk) up to its first await.
StartDispatch(c, owner) == CallService(NewDispatch(c, owner), 1)

StopRecordingEffect_NoPersist ==
    /\ recordingState' = recordingState
    /\ capturedTabId' = "null"

StopRecordingEffect_KeepsTab ==
    /\ recordingState' = "idle"
    /\ capturedTabId' = capturedTabId

\* stopRecording: the persisted state becomes idle, the tab is forgotten.
\* handleError calls it after sending the error message.
StopRecordingEffect ==
    /\ recordingState' = "idle"
    /\ capturedTabId' = "null"

\* Chunks that have been in the stored queue.
NoteQueued(q) == everQueued' = everQueued \cup {q[i] : i \in 1..Len(q)}

ForwardsToDispatcher_Always(on) == TRUE

\* if (!navigator.onLine) ... addToOfflineQueue, else transcribeAudio
ForwardsToDispatcher(on) == on

\* onMessage 'processAudioChunk': handleAudioChunk up to its first await.
ChunkArrives ==
    /\ Len(arrivals) < MaxChunks
    /\ LET c == Len(arrivals) + 1 IN
        /\ arrivals' = Append(arrivals, online)
        /\ IF ForwardsToDispatcher(online)
           THEN /\ Len(dispatches) < MaxDispatches
                /\ dispatches' = Append(dispatches, StartDispatch(c, 0))
                /\ UNCHANGED enqueues
           ELSE /\ enqueues' = (c :> [pc |-> "get", queue |-> offlineQueue]) @@ enqueues
                /\ UNCHANGED dispatches
    /\ UNCHANGED <<online, audioSource, capturedTabId, recordingState,
                   offlineQueue, startTasks, drains, everQueued>>
    /\ UNCHANGED sessionVars
    /\ UNCHANGED captureAll

\* addToOfflineQueue after its get: queue.push(chunk), storage.set; nothing
\* follows the await of the set.
EnqueueWrites(c) ==
    /\ c \in DOMAIN enqueues
    /\ enqueues[c].pc = "get"
    /\ offlineQueue' = Append(enqueues[c].queue, c)
    /\ NoteQueued(offlineQueue')
    /\ enqueues' = [enqueues EXCEPT ![c].pc = "done"]
    /\ UNCHANGED <<online, audioSource, capturedTabId, recordingState,
                   startTasks, dispatches, drains, arrivals>>
    /\ UNCHANGED sessionVars
    /\ UNCHANGED captureAll

\* A fetch of callGeminiApi settles for dispatch k.
GeminiResponds(k, resp) ==
    /\ k \in 1..Len(dispatches)
    /\ dispatches[k].pc = "fetch"
    /\ LET d == [dispatches[k] EXCEPT !.lastResp = resp]
           out == AttemptOutcome(resp, d.chunk)
           d2 == IF out.kind = "throw" /\ ~IsLastAttempt(d.i)
                 THEN [d EXCEPT !.pc = "backoff", !.delays = Append(@, Backoff(d.i))]
                 ELSE ServiceSettled(d, out)
       IN  /\ dispatches' = [dispatches EXCEPT ![k] = d2]
           /\ IF d2.pc = "failed"
              THEN StopRecordingEffect
              ELSE UNCHANGED <<recordingState, capturedTabId>>
    /\ UNCHANGED <<online, audioSource, offlineQueue, startTasks, enqueues, drains>>
    /\ UNCHANGED coordObserverVars
    /\ UNCHANGED sessionVars
    /\ UNCHANGED captureAll

\* The backoff timer of callGeminiApi fires: the next iteration's fetch.
BackoffElapses(k) ==
    /\ k \in 1..Len(dispatches)
    /\ dispatches[k].pc = "backoff"
    /\ dispatches' = [dispatches EXCEPT ![k].pc = "fetch", ![k].i = @ + 1,
                                        ![k].calls = Append(@, dispatches[k].svc)]
    /\ UNCHANGED <<online, audioSource, capturedTabId, recordingState,
                   offlineQueue, startTasks, enqueues, drains>>
    /\ UNCHANGED coordObserverVars
    /\ UNCHANGED sessionVars
    /\ UNCHANGED captureAll

\* The 'online' event: processOfflineQueue up to its await of storage.get.
GoOnline ==
    /\ ~online
    /\ Len(drains) < MaxDrains
    /\ online' = TRUE
    /\ drains' = Append(drains, [pc |-> "get", queue |-> offlineQueue])
    /\ UNCHANGED <<audioSource, capturedTabId, recordingState, offlineQueue,
                   startTasks, enqueues, dispatches>>
    /\ UNCHANGED coordObserverVars
    /\ UNCHANGED sessionVars
    /\ UNCHANGED captureAll

\* The 'offline' event.
GoOffline ==
    /\ online
    /\ online' = FALSE
    /\ UNCHANGED <<audioSource, capturedTabId, recordingState, offlineQueue,
                   startTasks, enqueues, dispatches, drains>>
    /\ UNCHANGED coordObserverVars
    /\ UNCHANGED sessionVars
    /\ UNCHANGED captureAll

\* processOfflineQueue after its get: return on an empty queue, else start
\* transcribeAudio for every chunk and await Promise.all.
DrainStarts(k) ==
    /\ k \in 1..Len(drains)
    /\ drains[k].pc = "get"
    /\ LET q == drains[k].queue IN
        IF Len(q) = 0
        THEN /\ drains' = [drains EXCEPT ![k].pc = "empty"]
             /\ UNCHANGED dispatches
        ELSE /\ Len(dispatches) + Len(q) <= MaxDispatches
             /\ drains' = [drains EXCEPT ![k].pc = "wait"]
             /\ dispatches' = dispatches \o
                    [i \in 1..Len(q) |-> StartDispatch(q[i], k)]
    /\ UNCHANGED <<online, audioSource, capturedTabId, recordingState,
                   offlineQueue, startTasks, enqueues>>
    /\ UNCHANGED coordObserverVars
    /\ UNCHANGED sessionVars
    /\ UNCHANGED captureAll

AllSettled_Any(k) ==
    \E j \in 1..Len(dispatches) :
        dispatches[j].owner = k /\ dispatches[j].pc \in {"ok", "failed"}

\* Promise.all(promises) resolves: every transcribeAudio of drain k returned.
AllSettled(k) ==
    \A j \in 1..Len(dispatches) :
        dispatches[j].owner = k => dispatches[j].pc \in {"ok", "failed"}

\* processOfflineQueue after Promise.all: storage.remove(OFFLINE_QUEUE_KEY).
DrainClears(k) ==
    /\ k \in 1..Len(drains)
    /\ drains[k].pc = "wait"
    /\ AllSettled(k)
    /\ offlineQueue' = <<>>
    /\ drains' = [drains EXCEPT ![k].pc = "removing"]
    /\ UNCHANGED <<online, audioSource, capturedTabId, recordingState,
                   startTasks, enqueues, dispatches>>
    /\ UNCHANGED coordObserverVars
    /\ UNCHANGED sessionVars
    /\ UNCHANGED captureAll

\* processOfflineQueue after its remove: updateStatus("Recording"), return.
DrainReturns(k) ==
    /\ k \in 1..Len(drains)
    /\ drains[k].pc = "removing"
    /\ drains' = [drains EXCEPT ![k].pc = "done"]
    /\ UNCHANGED <<online, audioSource, capturedTabId, recordingState,
                   offlineQueue, startTasks, enqueues, dispatches>>
    /\ UNCHANGED coordObserverVars
    /\ UNCHANGED sessionVars
    /\ UNCHANGED captureAll

\* onMessage 'startRecording': startRecording up to its first await.
StartRecordingMsg(source) ==
    /\ Len(startTasks) < MaxSessions
    /\ audioSource' = source
    /\ startTasks' = Append(startTasks, "setup")
    /\ UNCHANGED <<online, capturedTabId, recordingState, offlineQueue,
                   enqueues, dispatches, drains>>
    /\ UNCHANGED coordObserverVars
    /\ UNCHANGED sessionVars
    /\ UNCHANGED captureAll

\* startRecording: storage.set({recordingState: 'recording', ...}) after the
\* startOffscreenRecording message.
StartPersists(t) ==
    /\ recordingState' = "recording"
    /\ startTasks' = [startTasks EXCEPT ![t] = "persist"]

\* startRecording's catch clause: handleError(error), then the rejection.
StartFails(t) ==
    /\ StopRecordingEffect
    /\ startTasks' = [startTasks EXCEPT ![t] = "failed"]

\* startRecording after setupOffscreenDocument and, for a tab, tabs.query.
StartRecordingSetup(t, ok) ==
    /\ t \in 1..Len(startTasks)
    /\ startTasks[t] = "setup"
    /\ IF ~ok
       THEN StartFails(t)
       ELSE IF audioSource = "tab"
            THEN /\ capturedTabId' = "tab"
                 /\ startTasks' = [startTasks EXCEPT ![t] = "streamId"]
                 /\ UNCHANGED recordingState
            ELSE StartPersists(t) /\ UNCHANGED capturedTabId
    /\ UNCHANGED <<online, audioSource, offlineQueue, enqueues, dispatches, drains>>
    /\ UNCHANGED coordObserverVars
    /\ UNCHANGED sessionVars
    /\ UNCHANGED captureAll

\* startRecording after tabCapture.getMediaStreamId.
StartRecordingStreamId(t, ok) ==
    /\ t \in 1..Len(startTasks)
    /\ startTasks[t] = "streamId"
    /\ IF ok
       THEN StartPersists(t) /\ UNCHANGED capturedTabId
       ELSE StartFails(t)
    /\ UNCHANGED <<online, audioSource, offlineQueue, enqueues, dispatches, drains>>
    /\ UNCHANGED coordObserverVars
    /\ UNCHANGED sessionVars
    /\ UNCHANGED captureAll

\* startRecording resolves: sendResponse({success: true}).
StartRecordingResponds(t) ==
    /\ t \in 1..Len(startTasks)
    /\ startTasks[t] = "persist"
    /\ startTasks' = [startTasks EXCEPT ![t] = "done"]
    /\ UNCHANGED <<online, audioSource, capturedTabId, recordingState,
                   offlineQueue, enqueues, dispatches, drains>>
    /\ UNCHANGED coordObserverVars
    /\ UNCHANGED sessionVars
    /\ UNCHANGED captureAll

\* onMessage 'stopRecording'.
StopRecordingMsg ==
    /\ StopRecordingEffect
    /\ UNCHANGED <<online, audioSource, offlineQueue, startTasks, enqueues,
                   dispatches, drains>>
    /\ UNCHANGED coordObserverVars
    /\ UNCHANGED sessionVars
    /\ UNCHANGED captureAll

(***************************************************************************)
(* Session commands: sidepanel.js and the handlers of background.js        *)
(*                                                                         *)
(* A message of the side panel is handled by background.js in the step in  *)
(* which it is sent; a message to the side panel waits in toPopup.  The    *)
(* capture context appears only through its recordingError message.        *)
(***************************************************************************)
InitSession ==
    /\ popupState = "idle"
    /\ responded = {}
    /\ errorVisible = FALSE
    /\ statusText = "Idle"
    /\ fullTranscript = <<>>
    /\ toPopup = <<>>
    /\ transcript = <<>>
    /\ captureSettled = <<>>
    /\ inFlight = <<>>
    /\ sourceGone = FALSE
    /\ stopCalls = 0
    /\ requestedIn = <<>>
    /\ writers = {}
    /\ sinceError = FALSE

\* chrome.runtime.sendMessage({action: ...}) to the side panel.
Msg(action) == [action |-> action]

StatusUpdate(status) == [action |-> "statusUpdate", status |-> status]

UpdateTranscript(session) == [action |-> "updateTranscript", session |-> session]

StopRecording_Silent(sent) ==
    /\ StopRecordingEffect
    /\ toPopup' = IF SessionState = "idle" THEN sent
                  ELSE Append(sent, Msg("recordingStopped"))
    /\ stopCalls' = stopCalls + 1

\* stopRecording, with the recordingStopped message it sends after the
\* messages its caller has sent.
StopRecording(sent) ==
    /\ StopRecordingEffect
    /\ toPopup' = Append(sent, Msg("recordingStopped"))
    /\ stopCalls' = stopCalls + 1

\* handleError: the error message, then stopRecording.
HandleError == StopRecording(Append(toPopup, Msg("error")))

\* startRecording calls that have sent startOffscreenRecording: the number of
\* the session that is being captured.
OffscreenStarts ==
    Cardinality({t \in 1..Len(startTasks) : startTasks[t] \in {"persist", "done"}})

\* startRecording: the message to the capture context and the storage.set
\* of recordingState, startTime and an empty transcript.
SessionStartPersists(t) ==
    /\ StartPersists(t)
    /\ transcript' = <<>>
    /\ writers' = writers \cup {"background"}
    /\ UNCHANGED <<toPopup, stopCalls, sinceError>>

\* startRecording's catch clause: handleError(error), then the rejection.
SessionStartFails(t) ==
    /\ startTasks' = [startTasks EXCEPT ![t] = "failed"]
    /\ HandleError
    /\ writers' = writers \cup {"background"}
    /\ sinceError' = TRUE
    /\ UNCHANGED transcript

\* handleStartStop of the side panel.  Idle: the startRecording message,
\* which background.js takes up to the first await of startRecording.
\* Otherwise: the stopRecording message and the panel's own write of idle.
HandleStartStop(source) ==
    /\ IF popupState = "idle"
       THEN /\ Len(startTasks) < MaxStartRequests
            /\ audioSource' = source
            /\ startTasks' = Append(startTasks, "setup")
            /\ requestedIn' = Append(requestedIn, recordingState)
            /\ UNCHANGED <<popupState, statusText, recordingState, capturedTabId,
                           toPopup, stopCalls, writers>>
       ELSE /\ stopCalls < MaxStops
            /\ StopRecording(toPopup)
            /\ popupState' = "idle"
            /\ statusText' = "Idle"
            /\ writers' = writers \cup {"background", "sidepanel"}
            /\ UNCHANGED <<audioSource, startTasks, requestedIn>>
    /\ sinceError' = FALSE
    /\ UNCHANGED <<responded, errorVisible, fullTranscript, transcript,
                   captureSettled, inFlight, sourceGone>>
    /\ UNCHANGED <<online, offlineQueue, enqueues, dispatches, drains>>
    /\ UNCHANGED <<timerVars, timerObserverVars>>
    /\ UNCHANGED coordObserverVars
    /\ UNCHANGED captureAll

\* startRecording after setupOffscreenDocument and, for a tab, tabs.query;
\* a failure goes through the catch clause to handleError.
SessionStartSetup(t, ok) ==
    /\ t \in 1..Len(startTasks)
    /\ startTasks[t] = "setup"
    /\ IF ~ok
       THEN SessionStartFails(t) /\ UNCHANGED sourceGone
       ELSE /\ sourceGone' = FALSE
            /\ IF audioSource = "tab"
               THEN /\ capturedTabId' = "tab"
                    /\ startTasks' = [startTasks EXCEPT ![t] = "streamId"]
                    /\ UNCHANGED <<recordingState, transcript, writers, toPopup,
                                   stopCalls, sinceError>>
               ELSE SessionStartPersists(t) /\ UNCHANGED capturedTabId
    /\ UNCHANGED <<popupVars, captureSettled, inFlight, requestedIn>>
    /\ UNCHANGED <<online, audioSource, offlineQueue, enqueues, dispatches, drains>>
    /\ UNCHANGED <<timerVars, timerObserverVars>>
    /\ UNCHANGED coordObserverVars
    /\ UNCHANGED captureAll

\* startRecording after tabCapture.getMediaStreamId, which rejects for a tab
\* that is gone.
SessionStartStreamId(t, ok) ==
    /\ t \in 1..Len(startTasks)
    /\ startTasks[t] = "streamId"
    /\ ok => ~sourceGone
    /\ IF ok
       THEN SessionStartPersists(t) /\ UNCHANGED capturedTabId
       ELSE SessionStartFails(t)
    /\ UNCHANGED <<popupVars, captureSettled, inFlight, sourceGone, requestedIn>>
    /\ UNCHANGED <<online, audioSource, offlineQueue, enqueues, dispatches, drains>>
    /\ UNCHANGED <<timerVars, timerObserverVars>>
    /\ UNCHANGED coordObserverVars
    /\ UNCHANGED captureAll

\* startRecording resolves: sendResponse({success: true}).
SessionStartResponds(t) ==
    /\ t \in 1..Len(startTasks)
    /\ startTasks[t] = "persist"
    /\ startTasks' = [startTasks EXCEPT ![t] = "done"]
    /\ UNCHANGED <<online, audioSource, capturedTabId, recordingState,
                   offlineQueue, enqueues, dispatches, drains>>
    /\ UNCHANGED sessionVars
    /\ UNCHANGED <<timerVars, timerObserverVars>>
    /\ UNCHANGED coordObserverVars
    /\ UNCHANGED captureAll

\* handleStartStop after the response to startRecording arrived.
StartResponse(t) ==
    /\ t \in 1..Len(startTasks)
    /\ t \notin responded
    /\ startTasks[t] \in {"done", "failed"}
    /\ responded' = responded \cup {t}
    /\ IF startTasks[t] = "done"
       THEN /\ popupState' = "recording"
            /\ fullTranscript' = <<>>
            /\ transcript' = <<>>
            /\ writers' = writers \cup {"sidepanel"}
            /\ statusText' = "Recording"
            /\ errorVisible' = FALSE
       ELSE /\ errorVisible' = TRUE
            /\ UNCHANGED <<popupState, fullTranscript, transcript, writers,
                           statusText>>
    /\ UNCHANGED <<toPopup, captureSettled, inFlight, sourceGone, stopCalls,
                   requestedIn, sinceError>>
    /\ UNCHANGED coordVars
    /\ UNCHANGED <<timerVars, timerObserverVars>>
    /\ UNCHANGED coordObserverVars
    /\ UNCHANGED captureAll

\* handlePauseResume of the side panel: the message to background.js, which
\* forwards it to the capture context, and the panel's own write of the state.
HandlePauseResume ==
    /\ popupState # "idle"
    /\ popupState' = IF popupState = "recording" THEN "paused" ELSE "recording"
    /\ statusText' = IF popupState = "recording" THEN "Paused" ELSE "Recording"
    /\ recordingState' = popupState'
    /\ writers' = writers \cup {"sidepanel"}
    /\ sinceError' = FALSE
    /\ UNCHANGED <<responded, errorVisible, fullTranscript, toPopup, transcript,
                   captureSettled, inFlight, sourceGone, stopCalls, requestedIn>>
    /\ UNCHANGED <<online, audioSource, capturedTabId, offlineQueue, startTasks,
                   enqueues, dispatches, drains>>
    /\ UNCHANGED <<timerVars, timerObserverVars>>
    /\ UNCHANGED coordObserverVars
    /\ UNCHANGED captureAll

\* The message listener of the side panel, for the oldest waiting message.
PopupReceives ==
    /\ toPopup # <<>>
    /\ toPopup' = Tail(toPopup)
    /\ LET message == Head(toPopup) IN
        CASE message.action = "updateTranscript" ->
                /\ fullTranscript' = Append(fullTranscript, message.session)
                /\ transcript' = fullTranscript'
                /\ writers' = writers \cup {"sidepanel"}
                /\ UNCHANGED <<popupState, statusText, errorVisible>>
          [] message.action = "recordingStopped" ->
                /\ popupState' = "idle"
                /\ statusText' = "Idle"
                /\ UNCHANGED <<fullTranscript, transcript, writers, errorVisible>>
          [] message.action = "error" ->
                /\ errorVisible' = TRUE
                /\ UNCHANGED <<popupState, statusText, fullTranscript, transcript,
                               writers>>
          [] message.action = "statusUpdate" ->
                /\ statusText' = message.status
                /\ UNCHANGED <<popupState, fullTranscript, transcript, writers,
                               errorVisible>>
    /\ UNCHANGED <<responded, captureSettled, inFlight, sourceGone, stopCalls,
                   requestedIn, sinceError>>
    /\ UNCHANGED coordVars
    /\ UNCHANGED <<timerVars, timerObserverVars>>
    /\ UNCHANGED coordObserverVars
    /\ UNCHANGED captureAll

\* getUserMedia of a capture start settles.  When it rejects, the capture
\* context sends recordingError, which background.js gives to handleError.
CaptureStartSettles(ok) ==
    /\ Len(captureSettled) < OffscreenStarts
    /\ captureSettled' = Append(captureSettled, ok)
    /\ IF ok
       THEN UNCHANGED <<recordingState, capturedTabId, toPopup, stopCalls,
                        writers, sinceError>>
       ELSE /\ HandleError
            /\ writers' = writers \cup {"background"}
            /\ sinceError' = TRUE
    /\ UNCHANGED <<popupVars, transcript, inFlight, sourceGone, requestedIn>>
    /\ UNCHANGED <<online, audioSource, offlineQueue, startTasks, enqueues,
                   dispatches, drains>>
    /\ UNCHANGED <<timerVars, timerObserverVars>>
    /\ UNCHANGED coordObserverVars
    /\ UNCHANGED captureAll

\* The capture that opened its stream last, 0 when none has.
LiveCapture ==
    LET opened == {c \in 1..Len(captureSettled) : captureSettled[c]}
    IN  IF opened = {} THEN 0 ELSE CHOOSE c \in opened : \A e \in opened : e <= c

\* onMessage 'processAudioChunk' while online, for a chunk that the capture
\* of the running session sends: handleAudioChunk up to the await in
\* transcribeAudio.
SessionChunkArrives ==
    /\ LiveCapture > 0
    /\ LiveCapture = OffscreenStarts
    /\ SessionState # "idle"
    /\ Len(inFlight) < MaxSessionChunks
    /\ inFlight' = Append(inFlight, [session |-> LiveCapture, pc |-> "fetch"])
    /\ toPopup' = Append(toPopup, StatusUpdate("Transcribing..."))
    /\ UNCHANGED <<popupVars, transcript, captureSettled, sessionObserverVars>>
    /\ UNCHANGED coordVars
    /\ UNCHANGED <<timerVars, timerObserverVars>>
    /\ UNCHANGED coordObserverVars
    /\ UNCHANGED captureAll

\* transcribeAudio returns for call i: after a transcript it sends
\* updateTranscript and the status "Recording", else it calls handleError.
SessionDispatchSettles(i, ok) ==
    /\ i \in 1..Len(inFlight)
    /\ inFlight[i].pc = "fetch"
    /\ inFlight' = [inFlight EXCEPT ![i].pc = IF ok THEN "ok" ELSE "failed"]
    /\ IF ok
       THEN /\ toPopup' = toPopup \o <<UpdateTranscript(inFlight[i].session),
                                       StatusUpdate("Recording")>>
            /\ UNCHANGED <<recordingState, capturedTabId, stopCalls, writers,
                           sinceError>>
       ELSE /\ HandleError
            /\ writers' = writers \cup {"background"}
            /\ sinceError' = TRUE
    /\ UNCHANGED <<popupVars, transcript, captureSettled, sourceGone, requestedIn>>
    /\ UNCHANGED <<online, audioSource, offlineQueue, startTasks, enqueues,
                   dispatches, drains>>
    /\ UNCHANGED <<timerVars, timerObserverVars>>
    /\ UNCHANGED coordObserverVars
    /\ UNCHANGED captureAll

\* The tabs.onRemoved listener.
TabRemoved(tabId) ==
    /\ ~sourceGone
    /\ IF tabId = capturedTabId
       THEN /\ StopRecording(toPopup)
            /\ sourceGone' = TRUE
            /\ writers' = writers \cup {"background"}
       ELSE UNCHANGED <<recordingState, capturedTabId, toPopup, stopCalls,
                        sourceGone, writers>>
    /\ UNCHANGED <<popupVars, transcript, captureSettled, inFlight, requestedIn,
                   sinceError>>
    /\ UNCHANGED <<online, audioSource, offlineQueue, startTasks, enqueues,
                   dispatches, drains>>
    /\ UNCHANGED <<timerVars, timerObserverVars>>
    /\ UNCHANGED coordObserverVars
    /\ UNCHANGED captureAll

\* The microphone of a session that captures it is unplugged or its
\* permission revoked: no listener of the extension runs.
DeviceRevoked ==
    /\ ~sourceGone
    /\ audioSource = "mic"
    /\ SessionState \in {"recording", "paused"}
    /\ sourceGone' = TRUE
    /\ UNCHANGED <<popupVars, toPopup, transcript, captureSettled, inFlight,
                   stopCalls, requestedIn, writers, sinceError>>
    /\ UNCHANGED coordVars
    /\ UNCHANGED <<timerVars, timerObserverVars>>
    /\ UNCHANGED coordObserverVars
    /\ UNCHANGED captureAll

(***************************************************************************)
(* The elapsed time of the side panel (sidepanel.js)                       *)
(***************************************************************************)
TimerTick == TIMER_PERIOD \div 2

\* Date.now() when the extension is installed: some time after the epoch.
Epoch == TIMER_PERIOD

InitTimer ==
    /\ now = Epoch
    /\ secondsElapsed = 0
    /\ timerInterval = -1
    /\ storedSeconds = -1
    /\ storedStart = 0
    /\ pausedAt = 0
    /\ pausedSeconds = 0
    /\ resumedAt = 0

\* What the timer steps leave alone.
timerFrame ==
    <<captureAll, online, audioSource, capturedTabId, offlineQueue, startTasks,
      enqueues, dispatches, drains, coordObserverVars, responded, errorVisible,
      statusText, fullTranscript, toPopup, transcript, captureSettled, inFlight,
      sessionObserverVars>>

\* The DOMContentLoaded handler's value of secondsElapsed: for a recording
\* session result.secondsElapsed + floor((now - result.startTime) / 1000),
\* NaN (-1) when secondsElapsed was never stored; for a paused one
\* result.secondsElapsed || 0; otherwise the initial 0.
Reloaded ==
    CASE SessionState = "recording" ->
            IF storedSeconds = -1 THEN -1
            ELSE storedSeconds
                 + (IF storedStart # 0 THEN (now - storedStart) \div 1000 ELSE 0)
      [] SessionState = "paused" -> IF storedSeconds = -1 THEN 0 ELSE storedSeconds
      [] OTHER -> 0

PauseWrites_NoSeconds ==
    /\ recordingState' = "paused"
    /\ UNCHANGED storedSeconds

\* handlePauseResume, pause: storage.set({recordingState: 'paused',
\* secondsElapsed, pausedTime}); pausedTime is never used.
PauseWrites ==
    /\ recordingState' = "paused"
    /\ storedSeconds' = secondsElapsed

\* handlePauseResume, resume: storage.set({recordingState: 'recording',
\* startTime: Date.now()}).
ResumeWrites ==
    /\ recordingState' = "recording"
    /\ storedStart' = now

\* handleStartStop after a successful response, with the write of
\* recordingState by startRecording of background.js that came before it.
TimerStart ==
    /\ popupState = "idle"
    /\ popupState' = "recording"
    /\ secondsElapsed' = 0
    /\ recordingState' = "recording"
    /\ storedSeconds' = 0
    /\ storedStart' = now
    /\ timerInterval' = TIMER_PERIOD
    /\ pausedAt' = 0 /\ pausedSeconds' = 0 /\ resumedAt' = 0
    /\ UNCHANGED now
    /\ UNCHANGED timerFrame

\* handleStartStop of a running session: stopTimer and
\* storage.set({recordingState: 'idle', secondsElapsed}).
TimerStop ==
    /\ popupState # "idle"
    /\ popupState' = "idle"
    /\ timerInterval' = -1
    /\ recordingState' = "idle"
    /\ storedSeconds' = secondsElapsed
    /\ pausedAt' = 0 /\ pausedSeconds' = 0 /\ resumedAt' = 0
    /\ UNCHANGED <<now, secondsElapsed, storedStart>>
    /\ UNCHANGED timerFrame

\* handlePauseResume while recording.
TimerPause ==
    /\ popupState = "recording"
    /\ popupState' = "paused"
    /\ timerInterval' = -1
    /\ PauseWrites
    /\ pausedAt' = now /\ pausedSeconds' = secondsElapsed /\ resumedAt' = 0
    /\ UNCHANGED <<now, secondsElapsed, storedStart>>
    /\ UNCHANGED timerFrame

\* handlePauseResume while paused.
TimerResume ==
    /\ popupState = "paused"
    /\ popupState' = "recording"
    /\ timerInterval' = TIMER_PERIOD
    /\ ResumeWrites
    /\ resumedAt' = now
    /\ UNCHANGED <<now, secondsElapsed, storedSeconds, pausedAt, pausedSeconds>>
    /\ UNCHANGED timerFrame

\* The callback of setInterval in startTimer.
TimerFires ==
    /\ timerInterval = 0
    /\ secondsElapsed' = secondsElapsed + 1
    /\ timerInterval' = TIMER_PERIOD
    /\ UNCHANGED <<now, storedSeconds, storedStart, popupState, recordingState>>
    /\ UNCHANGED timerObserverVars
    /\ UNCHANGED timerFrame

\* Half a timer period passes; a timer that is due fires first.
TimePasses ==
    /\ now < MaxNow
    /\ timerInterval # 0
    /\ now' = now + TimerTick
    /\ timerInterval' = IF timerInterval = -1 THEN -1 ELSE timerInterval - TimerTick
    /\ UNCHANGED <<secondsElapsed, storedSeconds, storedStart, popupState,
                   recordingState>>
    /\ UNCHANGED timerObserverVars
    /\ UNCHANGED timerFrame

\* The side panel is closed and opened again: the DOMContentLoaded handler.
PanelReloads ==
    /\ popupState' = SessionState
    /\ secondsElapsed' = Reloaded
    /\ timerInterval' = IF SessionState = "recording" THEN TIMER_PERIOD ELSE -1
    /\ UNCHANGED <<now, storedSeconds, storedStart, recordingState>>
    /\ UNCHANGED timerObserverVars
    /\ UNCHANGED timerFrame

Init == InitCapture /\ InitCoord /\ InitSession /\ InitTimer

Next ==
    \/ ChunkArrives
    \/ \E c \in 1..MaxChunks : EnqueueWrites(c)
    \/ \E k \in 1..Len(dispatches), resp \in GeminiResponses : GeminiResponds(k, resp)
    \/ \E k \in 1..Len(dispatches) : BackoffElapses(k)
    \/ GoOnline
    \/ GoOffline
    \/ \E k \in 1..Len(drains) : DrainStarts(k)
    \/ \E k \in 1..Len(drains) : DrainClears(k)
    \/ \E k \in 1..Len(drains) : DrainReturns(k)
    \/ \E source \in {"tab", "mic"} : StartRecordingMsg(source)
    \/ \E t \in 1..Len(startTasks), ok \in BOOLEAN : StartRecordingSetup(t, ok)
    \/ \E t \in 1..Len(startTasks), ok \in BOOLEAN : StartRecordingStreamId(t, ok)
    \/ \E t \in 1..Len(startTasks) : StartRecordingResponds(t)
    \/ StopRecordingMsg

Spec == Init /\ [][Next]_vars

NextCapture ==
    \/ StartCaptureBegin
    \/ \E ok \in BOOLEAN : GetUserMediaSettles(ok)
    \/ \E k \in 1..MaxStarts, db \in Loudness : SampleTick(k, db)
    \/ TimeoutFire
    \/ RecorderStopEvents
    \/ \E i \in 1..Len(converting), ok \in BOOLEAN : ConvertSettles(i, ok)
    \/ PauseCommand
    \/ ResumeCommand
    \/ StopCommand
    \/ DocumentGone
    \/ Advance

SpecCapture == Init /\ [][NextCapture]_vars

NextSession ==
    \/ \E source \in {"tab", "mic"} : HandleStartStop(source)
    \/ \E t \in 1..Len(startTasks), ok \in BOOLEAN : SessionStartSetup(t, ok)
    \/ \E t \in 1..Len(startTasks), ok \in BOOLEAN : SessionStartStreamId(t, ok)
    \/ \E t \in 1..Len(startTasks) : SessionStartResponds(t)
    \/ \E t \in 1..Len(startTasks) : StartResponse(t)
    \/ HandlePauseResume
    \/ PopupReceives
    \/ \E ok \in BOOLEAN : CaptureStartSettles(ok)
    \/ SessionChunkArrives
    \/ \E i \in 1..Len(inFlight), ok \in BOOLEAN : SessionDispatchSettles(i, ok)
    \/ \E tabId \in {"tab", "other"} : TabRemoved(tabId)
    \/ DeviceRevoked

SpecSession == Init /\ [][NextSession]_vars

NextTimer ==
    \/ TimerStart
    \/ TimerStop
    \/ TimerPause
    \/ TimerResume
    \/ TimerFires
    \/ TimePasses
    \/ PanelReloads

SpecTimer == Init /\ [][NextTimer]_vars


(***************************************************************************)
(* Claims about the capture context.                                       *)
(***************************************************************************)

\* The chunks the Segmentation Engine has finalized: sent, being converted,
\* lost to a rejected conversion, or about to be handed to onstop.
ChunksProduced ==
    Len(emitted) + Len(converting) + convFailed + Len(stopEvents)
        + (IF timerLeft = 0 THEN 1 ELSE 0)

\* C1: with one sampling loop and no pause or stop command, the engine has
\* produced exactly one chunk per run of loud samples that was followed by
\* SPEECH_TIMEOUT ms of silence (a shorter gap splits nothing), and the
\* scenario's thirteen samples yield exactly one chunk.
C1_ChunkIffHangover ==
    clean =>
        /\ ChunksProduced = expected
        /\ scenPos = Len(Scenario) =>
              /\ ChunksProduced <= 1
              /\ timerLeft = -1 => ChunksProduced = 1

C1_Witness ==
    clean /\ scenPos = Len(Scenario) /\ Len(emitted) = 1 /\ expected = 1

\* C2: no chunk with nothing buffered is converted or sent, and handling a
\* stop event with an empty buffer sends and converts nothing.
C2_NoEmptyChunk ==
    /\ [](/\ \A i \in 1..Len(emitted) : Len(emitted[i]) > 0
          /\ \A i \in 1..Len(converting) : Len(converting[i]) > 0)
    /\ [][emptyStops' > emptyStops => UNCHANGED <<emitted, converting>>]_vars

C2_Witness == emptyStops > 0 /\ Len(emitted) > 0

(***************************************************************************)
(* Claims about the coordination context.                                  *)
(***************************************************************************)

DispatchIds == 1..Len(dispatches)

\* The calls dispatch record d made to service s.
CallsTo(d, s) == Cardinality({j \in 1..Len(d.calls) : d.calls[j] = s})

\* The last error of service s in dispatch d, read from the responses.
LastErrorOf(d, s) ==
    IF Services[s] = "callGeminiApi"
    THEN IF d.lastResp = "empty" THEN EmptyMessage ELSE GeminiError(d.lastResp)
    ELSE PlaceholderError(s)

\* C3: a dispatch calls the services in their configured order, none skipped;
\* it has succeeded exactly when a response carried a transcript, it then
\* sent that transcript and no error notice, and it never does anything more.
C3_OrderedFirstSuccess ==
    /\ [](\A k \in DispatchIds :
            LET d == dispatches[k] IN
            /\ d.calls[1] = 1
            /\ \A j \in 1..(Len(d.calls) - 1) :
                  d.calls[j + 1] \in {d.calls[j], d.calls[j] + 1}
            /\ d.lastResp = "text" <=> d.pc = "ok"
            /\ d.pc = "ok" =>
                  /\ d.updates = <<[transcript |-> <<"transcript", d.chunk>>]>>
                  /\ d.notices = <<>>
                  /\ d.calls[Len(d.calls)] = d.svc)
    /\ [][\A k \in DispatchIds :
            dispatches[k].pc = "ok" => dispatches'[k] = dispatches[k]]_vars

C3_Witness ==
    \E k \in DispatchIds :
        /\ dispatches[k].pc = "ok"
        /\ dispatches[k].calls = <<1, 1, 1>>
        /\ dispatches[k].notices = <<>>

\* C4: no service is called more than Retries times by one dispatch, and the
\* backoff delays are BaseDelay, then twice the delay before: 1000, 2000.
C4_BoundedRetriesDoubling ==
    \A k \in DispatchIds :
        LET d == dispatches[k] IN
        /\ \A s \in 1..Len(Services) : CallsTo(d, s) <= 3
        /\ Len(d.delays) = CallsTo(d, 1) - (IF d.pc = "backoff" THEN 0 ELSE 1)
        /\ Len(d.delays) >= 1 => d.delays[1] = 1000
        /\ \A j \in 2..Len(d.delays) : d.delays[j] = 2 * d.delays[j - 1]

C4_Witness ==
    \E k \in DispatchIds :
        /\ dispatches[k].delays = <<1000, 2000>>
        /\ CallsTo(dispatches[k], 1) = 3
        /\ dispatches[k].pc = "failed"

\* C5: a dispatch that failed sent exactly one error notice, which names
\* every service once, in order, each with that service's last error; a
\* dispatch that has not failed sent none, and a failed one no transcript.
C5_AggregatedFailure ==
    \A k \in DispatchIds :
        LET d == dispatches[k] IN
        /\ d.pc # "failed" => d.notices = <<>>
        /\ d.pc = "failed" =>
              /\ Len(d.notices) = 1
              /\ Len(d.notices[1]) = Len(Services)
              /\ \A s \in 1..Len(Services) :
                    d.notices[1][s] = <<Services[s], LastErrorOf(d, s)>>
              /\ d.updates = <<>>

C5_Witness ==
    \E k \in DispatchIds :
        /\ dispatches[k].pc = "failed"
        /\ dispatches[k].lastResp = "http"
        /\ dispatches[k].calls = <<1, 1, 1, 2, 3>>

\* C6 as claimed: a dispatch leaves the primary service for the next one only
\* after Retries calls, whether the failure was structural or a network one.
C6_Original ==
    \A k \in DispatchIds :
        Len(dispatches[k].errorMessages) >= 1 => CallsTo(dispatches[k], 1) = Retries

\* C6 as amended: a response without the text is never retried, the dispatch
\* records it and goes on to the next service at once; a thrown failure is
\* left behind only after Retries calls.
C6_StructuralNotRetried ==
    \A k \in DispatchIds :
        LET d == dispatches[k] IN
        /\ d.lastResp = "empty" =>
              /\ d.pc \notin {"fetch", "backoff"}
              /\ d.errorMessages[1] = <<"callGeminiApi", EmptyMessage>>
        /\ Len(d.errorMessages) >= 1 /\ d.lastResp # "empty" =>
              /\ CallsTo(d, 1) = Retries
              /\ d.errorMessages[1] = <<"callGeminiApi", GeminiError(d.lastResp)>>

C6_Witness ==
    \E k, m \in DispatchIds :
        /\ dispatches[k].lastResp = "empty"
        /\ dispatches[k].calls = <<1, 2, 3>>
        /\ dispatches[k].pc = "failed"
        /\ dispatches[m].lastResp = "network"
        /\ dispatches[m].calls = <<1, 1, 1, 2, 3>>

\* A task in which a transcribeAudio call runs: it starts, or its record
\* changes.
DispatchStep ==
    \/ Len(dispatches') > Len(dispatches)
    \/ \E k \in DispatchIds : dispatches'[k] # dispatches[k]

DispatchFails ==
    \E k \in DispatchIds : dispatches[k].pc # "failed" /\ dispatches'[k].pc = "failed"

\* C7 as claimed: no step of a dispatch changes the session state or the
\* offline queue.
C7_Original ==
    [][DispatchStep => SessionState' = SessionState /\ offlineQueue' = offlineQueue]_vars

\* C7 as amended: a step of a dispatch never changes the offline queue; it
\* leaves recordingState alone unless the dispatch fails in it, and then it
\* sets recordingState to idle (handleError calls stopRecording).
C7_FrameExceptFailure ==
    [][DispatchStep =>
          /\ offlineQueue' = offlineQueue
          /\ recordingState' = IF DispatchFails THEN "idle" ELSE recordingState]_vars

C7_Witness ==
    \E k, m \in DispatchIds :
        /\ dispatches[k].pc = "failed"
        /\ dispatches[m].pc = "ok"
        /\ startTasks = <<"done">>
        /\ recordingState = "idle"
        /\ offlineQueue # <<>>

\* The dispatches handleAudioChunk itself started for chunk c.
DirectDispatches(c) ==
    {k \in DispatchIds : dispatches[k].chunk = c /\ dispatches[k].owner = 0}

\* C8: a chunk that arrived online was handed to a dispatch and never put in
\* the queue; one that arrived offline was handed to addToOfflineQueue, which
\* put it in the stored queue, and handleAudioChunk called no provider for it.
C8_RoutedByConnectivity ==
    \A c \in 1..Len(arrivals) :
        IF arrivals[c]
        THEN /\ Cardinality(DirectDispatches(c)) = 1
             /\ c \notin DOMAIN enqueues
             /\ c \notin everQueued
        ELSE /\ DirectDispatches(c) = {}
             /\ c \in DOMAIN enqueues
             /\ enqueues[c].pc = "done" => c \in everQueued

C8_Witness ==
    /\ Len(arrivals) = 2
    /\ ~arrivals[1] /\ arrivals[2]
    /\ enqueues[1].pc = "done"
    /\ offlineQueue = <<1>>
    /\ DirectDispatches(2) # {}

DrainIds == 1..Len(drains)

\* The dispatches drain k started.
DrainDispatches(k) == {j \in DispatchIds : dispatches[j].owner = k}

\* C9: a drain that read a non-empty queue starts a dispatch for every chunk
\* of it, removes the stored queue only when each of them has returned,
\* failed or not, and its remove leaves the stored queue empty.
C9_DrainClearsAfterAll ==
    /\ [](\A k \in DrainIds :
            /\ drains[k].pc \in {"wait", "removing", "done"} =>
                  /\ Len(drains[k].queue) > 0
                  /\ \A i \in 1..Len(drains[k].queue) :
                        \E j \in DrainDispatches(k) :
                            dispatches[j].chunk = drains[k].queue[i]
            /\ drains[k].pc \in {"removing", "done"} =>
                  \A j \in DrainDispatches(k) : dispatches[j].pc \in {"ok", "failed"})
    /\ [][\A k \in DrainIds :
            drains[k].pc = "wait" /\ drains'[k].pc # "wait" =>
                drains'[k].pc = "removing" /\ offlineQueue' = <<>>]_vars

C9_Witness ==
    \E k \in DrainIds :
        /\ drains[k].pc = "done"
        /\ Len(drains[k].queue) = 2
        /\ \E i, j \in DrainDispatches(k) :
              dispatches[i].pc = "ok" /\ dispatches[j].pc = "failed"
        /\ offlineQueue = <<>>

\* C10 as claimed: at most one drain is dispatching at a time, and no chunk
\* is dispatched by a drain more than once.
C10_SingleDrain ==
    /\ Cardinality({k \in DrainIds : drains[k].pc \in {"wait", "removing"}}) <= 1
    /\ \A c \in 1..Len(arrivals) :
          Cardinality({j \in DispatchIds :
                          dispatches[j].chunk = c /\ dispatches[j].owner # 0}) <= 1

\* The chunks in sequence q.
Chunks(q) == {q[i] : i \in 1..Len(q)}

\* C11 as claimed: a chunk leaves the stored queue only when it has been
\* handed to a dispatch; the remove of a drain drops none that it did not
\* dispatch.
C11_NoChunkDropped ==
    [][offlineQueue' = <<>> =>
          \A c \in Chunks(offlineQueue) :
              \E j \in DispatchIds : dispatches[j].chunk = c]_vars

\* The chunks that arrived offline, in arrival order.
OfflineArrivals == SelectSeq([c \in 1..Len(arrivals) |-> c], LAMBDA c : ~arrivals[c])

\* C12 as claimed: once every addToOfflineQueue call has completed, and no
\* drain has run, the stored queue holds every chunk that arrived offline,
\* in arrival order.
C12_MonotonicAppend ==
    (/\ drains = <<>>
     /\ \A c \in DOMAIN enqueues : enqueues[c].pc = "done")
        => offlineQueue = OfflineArrivals


\* C19: in the step in which a dispatch fails on every service it sends its
\* one error notice, the aggregated message of C5, and stopRecording runs:
\* the persisted state is idle and the captured tab is forgotten.
C19_FailureStopsSession ==
    [][\A k \in DispatchIds :
          (dispatches[k].pc # "failed" /\ dispatches'[k].pc = "failed") =>
              /\ dispatches[k].notices = <<>>
              /\ dispatches'[k].notices = <<dispatches'[k].errorMessages>>
              /\ Len(dispatches'[k].errorMessages) = Len(Services)
              /\ recordingState' = "idle"
              /\ capturedTabId' = "null"]_vars

C19_Witness ==
    /\ startTasks = <<"done">>
    /\ audioSource = "tab"
    /\ capturedTabId = "null"
    /\ recordingState = "idle"
    /\ \E k \in DispatchIds :
          /\ dispatches[k].pc = "failed"
          /\ Len(dispatches[k].notices) = 1
          /\ dispatches[k].owner = 0

\* The dispatch record d has returned.
Returned(d) == d.pc \in {"ok", "failed"}

\* What dispatch record d has done so far: calls made, backoffs begun, and
\* its return.
Progress(d) == Len(d.calls) + Len(d.delays) + (IF Returned(d) THEN 1 ELSE 0)

\* A task of dispatch k is due: a fetch that settles, or a backoff timer.
DispatchEnabled(k) ==
    \/ ENABLED (\E resp \in GeminiResponses : GeminiResponds(k, resp))
    \/ ENABLED BackoffElapses(k)

\* C29: a dispatch makes at most 3 calls to the primary service and 1 to
\* each fallback; until it has returned it has sent nothing and a task of it
\* is due; every task of it adds to what it has done, which is bounded; and
\* when it has returned it has sent one transcript or one error message,
\* not both.
C29_DispatchTerminates ==
    /\ [](\A k \in DispatchIds :
            LET d == dispatches[k] IN
            /\ CallsTo(d, 1) <= 3 /\ CallsTo(d, 2) <= 1 /\ CallsTo(d, 3) <= 1
            /\ Progress(d) <= 3 + 1 + 1 + 2 + 1
            /\ ~Returned(d) => /\ DispatchEnabled(k)
                               /\ Len(d.updates) + Len(d.notices) = 0
            /\ Returned(d) => Len(d.updates) + Len(d.notices) = 1)
    /\ [][\A k \in DispatchIds :
            dispatches'[k] # dispatches[k] =>
                Progress(dispatches'[k]) > Progress(dispatches[k])]_vars

C29_Witness ==
    \E k, m \in DispatchIds :
        /\ dispatches[k].pc = "failed"
        /\ Progress(dispatches[k]) = 8
        /\ Len(dispatches[k].notices) = 1 /\ dispatches[k].updates = <<>>
        /\ dispatches[m].pc = "ok"
        /\ Progress(dispatches[m]) = 2
        /\ Len(dispatches[m].updates) = 1 /\ dispatches[m].notices = <<>>

(***************************************************************************)
(* Claims about the commands of the capture context.                       *)
(***************************************************************************)

\* C15 as claimed: once the capture context has handled a stop command, the
\* tracks of every capture stream are stopped, no sampling interval and no
\* hangover timer is left running, and every analysis graph is closed.
C15_StopCleansUp ==
    closed => /\ tracksLive = 0
              /\ intervals = <<>>
              /\ timerLeft = -1
              /\ contextsOpen = 0

\* C16 as claimed: between a pause command and the next resume command the
\* suspended encoder finalizes no chunk: nothing calls stop() on it.
C16_PauseFinalizesNothing ==
    [][pauseActive /\ pauseActive' /\ mediaRecorder = "paused"
          => Len(stopEvents') <= Len(stopEvents)]_vars

\* C17 as claimed: between a pause command and the next resume command a
\* sample does not start the encoder, also when the encoder was inactive at
\* the pause.
C17_PauseIgnoresSamples ==
    [][pauseActive /\ pauseActive' /\ mediaRecorder # "recording"
          => mediaRecorder' # "recording"]_vars

\* C18 as claimed: when a stop command found the encoder recording with data
\* buffered, and every event and conversion it left behind is over, the
\* chunk of that segment has been sent to the coordination context.
C18_StopEmitsBuffered ==
    (/\ closed
     /\ stopFinalized > 0
     /\ stopEvents = <<>>
     /\ converting = <<>>
     /\ convFailed = 0)
        => \E j \in 1..Len(emitted) : stopFinalized \in Chunks(emitted[j])


(***************************************************************************)
(* Claims about the session commands.                                      *)
(***************************************************************************)

\* C13 as claimed: a startRecording request received while the persisted
\* state was recording or paused is rejected: its call never goes on to
\* take a tab, to start the capture context and write the state, or to
\* answer success.
C13_StartRejectedWhenActive ==
    \A t \in 1..Len(startTasks) :
        requestedIn[t] \in {"recording", "paused"}
            => startTasks[t] \notin {"streamId", "persist", "done"}

\* The recordingStopped messages in q.
StopNotices(q) ==
    Cardinality({i \in 1..Len(q) : q[i].action = "recordingStopped"})

\* C14: every call of stopRecording, whatever the state it is made in, leaves
\* the persisted state idle and sends one recordingStopped message, the last
\* message of the step; so a call on an idle session, or a second call, ends
\* in the persisted state of a single call.
C14_StopIdempotent ==
    [][stopCalls' # stopCalls =>
          /\ recordingState' = "idle"
          /\ capturedTabId' = "null"
          /\ toPopup' # <<>>
          /\ toPopup'[Len(toPopup')].action = "recordingStopped"
          /\ StopNotices(toPopup') = StopNotices(toPopup) + 1]_vars

C14_Witness ==
    /\ stopCalls = 2
    /\ startTasks = <<"failed", "failed">>
    /\ recordingState = "idle"
    /\ toPopup = <<Msg("error"), Msg("recordingStopped"),
                   Msg("error"), Msg("recordingStopped")>>

\* A task of the extension itself is due: anything but a click in the side
\* panel or an event of the environment.
ProgramStep ==
    \/ \E t \in 1..Len(startTasks), ok \in BOOLEAN : SessionStartSetup(t, ok)
    \/ \E t \in 1..Len(startTasks), ok \in BOOLEAN : SessionStartStreamId(t, ok)
    \/ \E t \in 1..Len(startTasks) : SessionStartResponds(t)
    \/ \E t \in 1..Len(startTasks) : StartResponse(t)
    \/ PopupReceives
    \/ \E ok \in BOOLEAN : CaptureStartSettles(ok)
    \/ \E i \in 1..Len(inFlight), ok \in BOOLEAN : SessionDispatchSettles(i, ok)

\* C20 as claimed: a session whose capture source is gone does not stay
\* recording or paused: while it is, some task of the extension is still due.
C20_NoDeadSession ==
    (sourceGone /\ SessionState \in {"recording", "paused"}) => ENABLED ProgramStep


(***************************************************************************)
(* Claims about the resources of the capture context.                      *)
(***************************************************************************)

\* C26 as claimed, for a capture that was started once: the hangover timer
\* is pending only while the encoder is recording, so its callback never
\* finds an encoder that is inactive or paused.
C26_TimerOnlyWhileRecording ==
    (starts <= 1 /\ timerLeft >= 0) => mediaRecorder = "recording"

\* C28 as claimed: a start command handled while a capture is set up (its
\* sampling loop runs) asks for no second capture stream, whatever the state
\* of the encoder.
C28_SingleCapture ==
    [][(starts' > starts /\ intervals # <<>>) => gumPending' = gumPending]_vars

\* C23 as claimed, for a capture that was started once: every chunk sent
\* holds the audio of one segment only, and no two chunks sent hold audio of
\* the same segment.
C23_OneChunkPerSegment ==
    starts <= 1 =>
        /\ \A j \in 1..Len(emitted) : Len(emitted[j]) = 1
        /\ \A j, k \in 1..Len(emitted) :
              j # k => Chunks(emitted[j]) \cap Chunks(emitted[k]) = {}

(***************************************************************************)
(* Claims about what the side panel is told and what is persisted          *)
(***************************************************************************)

\* The statusUpdate messages with the status "Recording" in q.
RecordingNotices(q) ==
    Cardinality({i \in 1..Len(q) :
        q[i].action = "statusUpdate" /\ q[i].status = "Recording"})

\* C27 as claimed: once the one session that was started is idle again, no
\* step sends the status "Recording" to the side panel.
C27_NoRecordingStatusWhenIdle ==
    [][(SessionState = "idle" /\ startTasks = <<"done">>)
          => RecordingNotices(toPopup') <= RecordingNotices(toPopup)]_vars

\* C24 as claimed: background.js is the only context that has written
\* recordingState, startTime, secondsElapsed or transcript to storage.
C24_SoleWriter == writers \subseteq {"background"}

\* The updateTranscript messages in q.
TranscriptNotices(q) ==
    Cardinality({i \in 1..Len(q) : q[i].action = "updateTranscript"})

\* C25 as claimed: when a session has ended and the next one has been
\* started and answered, a call of transcribeAudio for a chunk of the earlier
\* session that returns a transcript sends no entry to the side panel, whose
\* listener appends every entry it receives to the running transcript.
C25_TranscriptScoped ==
    [][\A i \in 1..Len(inFlight) :
          (/\ inFlight[i].pc = "fetch" /\ inFlight'[i].pc = "ok"
           /\ inFlight[i].session < OffscreenStarts
           /\ responded = 1..Len(startTasks)
           /\ \A t \in 2..Len(startTasks) :
                 requestedIn[t] = "idle" /\ startTasks[t - 1] = "done")
             => TranscriptNotices(toPopup') = TranscriptNotices(toPopup)]_vars

\* C22 as claimed: after handleError has run, once every task of the
\* extension has run and every message is delivered, the persisted state and
\* the state of the side panel are idle and the error is on display.
C22_ErrorEndsSession ==
    (sinceError /\ ~ENABLED ProgramStep)
        => /\ SessionState = "idle"
           /\ popupState = "idle"
           /\ errorVisible

(***************************************************************************)
(* Claims about the elapsed time of the side panel                         *)
(***************************************************************************)

\* C21: when a pause is followed by a resume with no time passing between
\* them, then at that instant secondsElapsed of the panel is what it was at
\* the pause, and so is the value a reload of the panel computes from the
\* stored secondsElapsed and startTime.
C21_PauseResumeKeepsSeconds ==
    (popupState = "recording" /\ pausedAt = now /\ resumedAt = now)
        => /\ secondsElapsed = pausedSeconds
           /\ Reloaded = pausedSeconds

\* A session that has run for a second and a half is paused and resumed at
\* once.
C21_Witness ==
    /\ popupState = "recording"
    /\ pausedAt = now
    /\ resumedAt = now
    /\ pausedSeconds = 1
    /\ now - storedStart = 0
    /\ now % TIMER_PERIOD # 0

=========================================================================
